---- MODULE Spec2Model ----
(***************************************************************************)
(* State-machine model of app.js: the IndexedDB record store (openDB,      *)
(* addFileRecord, getAllFiles, deleteFile) together with the part of the   *)
(* IndexedDB engine those four functions rely on: the FIFO queue of open   *)
(* requests, the FIFO queue of transactions on the one object store, the   *)
(* auto-increment key generator, and the commit or abort that ends every   *)
(* transaction after its request has fired success.                        *)
(*                                                                         *)
(* A call is one invocation of one of the four functions.  A call lives    *)
(* in openq while its indexedDB.open request is pending and in txq while   *)
(* its transaction has not finished.  The promise a call returns is        *)
(* settled by the request's success or error event, as in the source; the  *)
(* transaction the call created commits or aborts afterwards.              *)
(*                                                                         *)
(* Spec is the record store under an arbitrary caller.  SpecApp is the     *)
(* store as the page uses it: the DOMContentLoaded handler, the drop and   *)
(* change listeners with handleFiles, fileToDataURL, renderGallery and     *)
(* renderDataTable under refreshGalleryAndData, and the click handlers of  *)
(* the table buttons.  An invocation of an async function runs from one    *)
(* await to the next in the step of the event that settles the promise it  *)
(* awaits (its continuation is a microtask of that event).  The page is    *)
(* taken to have both #gallery-grid and #data-tbody; the status text and   *)
(* the download link are left out.                                         *)
(***************************************************************************)
EXTENDS Integers, Sequences, FiniteSets, TLC

\* ---------------------------------------------------------------- bounds
MaxCalls == 3
MaxClock == 1
MaxEvents == 2
MaxFiles == 2

\* ---------------------------------------------------------------- inputs
\* Two uploads: a File object (name, type, size) and the dataURL read from it.
Uploads ==
  { [file |-> [name |-> "a.txt", type |-> "text/plain", size |-> 3],
     dataURL |-> "data:text/plain;base64,YWJj"],
    [file |-> [name |-> "b.png", type |-> "image/png", size |-> 0],
     dataURL |-> "data:image/png;base64,"] }

NoFile == [name |-> "", type |-> "", size |-> 0]

\* An id argument of deleteFile: a number, or a string of decimal digits
\* (btn.dataset.id is a string).
NumId(n) == [kind |-> "num", val |-> n, digits |-> << >>]
StrId(ds) == [kind |-> "str", val |-> 0, digits |-> ds]
NoId == NumId(0)

IdArgs == { NumId(1), StrId(<<1>>), StrId(<<0, 2>>) }

VARIABLES
  db,         \* the module-level handle: 0 is null, n > 0 the n-th connection
  nconn,      \* connections opened so far by indexedDB.open
  openq,      \* calls whose indexedDB.open request is pending, oldest first
  txq,        \* calls whose transaction has not finished, oldest first
  store,      \* the object store 'files': key -> record
  keyGen,     \* the key generator's current number
  snap,       \* store and key generator as they were when the running
              \* transaction started (restored on abort)
  clock,      \* the wall clock read by new Date()
  ncalls,     \* calls made so far
  settled,    \* the call whose promise settled last, as its caller sees it
  \* history of what the callers have been told
  written,    \* key -> the fields given to the add request that wrote it
  known,      \* keys stored when the session began or an add resolved with,
              \* less those a delete request has run on since
  gone,       \* keys a resolved deleteFile was asked to remove, less those
              \* an add request has been given since
  returned,   \* the ids addFileRecord resolved with, oldest first
  openFailed, \* an indexedDB.open request has fired error
  \* the page
  wired,      \* setupUploadArea() has attached the drop and change listeners
  tasks,      \* id -> the running invocations of the async functions of the
              \* page: the DOMContentLoaded handler, handleFiles,
              \* refreshGalleryAndData, a button's click handler
  ntasks,     \* invocations started so far
  ended,      \* the invocation that returned or threw last
  thrown,     \* an invocation has thrown
  gallery,    \* the children of #gallery-grid: record ids, 0 the placeholder
  table,      \* the rows of #data-tbody: record ids, 0 the placeholder row
  origin,     \* key -> the handleFiles invocation and file index whose add
              \* request wrote it
  nevents     \* drop, change and click events so far

history == << written, known, gone, returned, openFailed >>

page == << wired, tasks, ntasks, ended, thrown, gallery, table, origin,
           nevents >>

vars == << db, nconn, openq, txq, store, keyGen, snap, clock, ncalls, settled,
           written, known, gone, returned, openFailed,
           wired, tasks, ntasks, ended, thrown, gallery, table, origin,
           nevents >>

\* ---------------------------------------------------------------- helpers
Min(a, b) == IF a < b THEN a ELSE b

RECURSIVE DigitsToNumber(_)
DigitsToNumber(ds) ==
  IF ds = << >> THEN 0
  ELSE 10 * DigitsToNumber(SubSeq(ds, 1, Len(ds) - 1)) + ds[Len(ds)]

\* Number(id)
ToNumber(id) == IF id.kind = "num" THEN id.val ELSE DigitsToNumber(id.digits)

Restrict(f, S) == [k \in S |-> f[k]]

RECURSIVE SortedRecords(_, _)
SortedRecords(st, keys) ==
  IF keys = {} THEN << >>
  ELSE LET k == CHOOSE x \in keys : \A y \in keys : x <= y
       IN  << st[k] >> \o SortedRecords(st, keys \ {k})

NoSnap == [store |-> << >>, keyGen |-> 0]

Range(f) == { f[i] : i \in DOMAIN f }

\* No addFileRecord or deleteFile call is waiting for its request's event.
Quiet ==
  /\ \A i \in DOMAIN openq : openq[i].op \notin {"add", "delete"}
  /\ \A i \in DOMAIN txq :
       txq[i].op \in {"add", "delete"} => txq[i].promise # "pending"

\* A call as it is made.  expect, absent, quiet, prior and afterFail record
\* what the caller knew when it made the call.
NewCall(op, file, dataURL, id) ==
  [ op |-> op, file |-> file, dataURL |-> dataURL, id |-> id,
    promise |-> "pending", tx |-> "none", at |-> 0,
    nreq |-> 0, fault |-> FALSE,
    resId |-> 0, resList |-> << >>, resDb |-> 0,
    expect |-> IF op = "getAll" THEN known ELSE {},
    absent |-> IF op = "getAll" THEN gone ELSE {},
    quiet |-> IF op = "getAll" THEN Quiet ELSE FALSE,
    prior |-> IF op = "add" THEN Range(returned) \cup DOMAIN store ELSE {},
    afterFail |-> openFailed, owner |-> 0 ]

\* settled before any promise has settled.
NoCall ==
  [ op |-> "none", file |-> NoFile, dataURL |-> "", id |-> NoId,
    promise |-> "pending", tx |-> "none", at |-> 0,
    nreq |-> 0, fault |-> FALSE,
    resId |-> 0, resList |-> << >>, resDb |-> 0,
    expect |-> {}, absent |-> {}, quiet |-> FALSE, prior |-> {},
    afterFail |-> FALSE, owner |-> 0 ]

\* An invocation of an async function of the page.  kind says which one
\* ("init": the DOMContentLoaded handler, "batch": handleFiles, "refresh":
\* refreshGalleryAndData, "click": a button's click handler) and pc where it
\* is suspended.  files, i: the batch and the index of the file the loop
\* is at; row, action: btn.dataset.id and btn.dataset.action; confirm: what
\* the user answers if confirm() is shown.  attempted counts the
\* addFileRecord and deleteFile calls made, resolved those that resolved,
\* faults the rejections seen; found, asked, refreshed record that the
\* record was found, confirm() was shown, refreshGalleryAndData() was called.
NoTask ==
  [ id |-> 0, kind |-> "none", pc |-> "none", files |-> << >>, i |-> 0,
    row |-> NoId, action |-> "none", confirm |-> FALSE,
    attempted |-> 0, resolved |-> 0, faults |-> 0,
    found |-> FALSE, asked |-> FALSE, refreshed |-> FALSE ]

\* ---------------------------------------------------------------- the code
\* The callback passed to openDB().then(...): opens the transaction and
\* places the one request of the call.  For openDB itself there is no
\* callback: the promise resolves with the handle.
ThenCallback(call, database, t) ==
  IF call.op = "open"
  THEN [call EXCEPT !.promise = "resolved", !.resDb = database]
  ELSE [call EXCEPT !.tx = "active", !.nreq = @ + 1,
                    !.at = IF call.op = "add" THEN t ELSE 0]

\* const rec = {...}; the key path 'id' is filled in by the store.
MakeRecord(call, key) ==
  [ id |-> key, name |-> call.file.name, type |-> call.file.type,
    size |-> call.file.size, uploadedAt |-> call.at,
    dataURL |-> call.dataURL ]

\* store.add(rec) on an autoIncrement store.
StoreAdd(st, kg, call) ==
  [ store |-> [k \in DOMAIN st \cup {kg + 1} |->
                 IF k = kg + 1 THEN MakeRecord(call, kg + 1) ELSE st[k]],
    keyGen |-> kg + 1, key |-> kg + 1 ]

\* A delete that blanks the payload and keeps the row (a soft delete).
StoreDeleteBlank(st, id) ==
  [k \in DOMAIN st |->
     IF k = ToNumber(id) THEN [st[k] EXCEPT !.dataURL = ""] ELSE st[k]]

\* store.delete(Number(id)).
StoreDelete(st, id) == Restrict(st, DOMAIN st \ {ToNumber(id)})

\* store.getAll(): every record, in key order.
StoreGetAll(st) == SortedRecords(st, DOMAIN st)

\* A store whose delete treats a missing key as an error.
SucceedRequestStrict(call, st, kg) ==
  CASE call.op = "add" ->
         [call EXCEPT !.promise = "resolved", !.tx = "finishing",
                      !.resId = kg + 1]
    [] call.op = "getAll" ->
         [call EXCEPT !.promise = "resolved", !.tx = "finishing",
                      !.resList = SortedRecords(st, DOMAIN st)]
    [] call.op = "delete" /\ ToNumber(call.id) \notin DOMAIN st ->
         [call EXCEPT !.promise = "rejected", !.tx = "finishing"]
    [] OTHER ->
         [call EXCEPT !.promise = "resolved", !.tx = "finishing"]

\* rq.onsuccess = () => res(rq.result), req.onsuccess = () => res(req.result),
\* req.onsuccess = () => res()
SucceedRequest(call, st, kg) ==
  CASE call.op = "add" ->
         [call EXCEPT !.promise = "resolved", !.tx = "finishing",
                      !.resId = StoreAdd(st, kg, call).key]
    [] call.op = "getAll" ->
         [call EXCEPT !.promise = "resolved", !.tx = "finishing",
                      !.resList = StoreGetAll(st)]
    [] OTHER ->
         [call EXCEPT !.promise = "resolved", !.tx = "finishing"]

\* An error handler that places the request again instead of rejecting.
FailRequestRetry(call) == [call EXCEPT !.fault = TRUE, !.nreq = @ + 1]

\* rq.onerror = e => rej(e); the unhandled error event aborts the transaction.
FailRequest(call) ==
  [call EXCEPT !.promise = "rejected", !.tx = "aborted", !.fault = TRUE]

\* req.onerror = e => rej(e) of indexedDB.open
FailOpen(call) == [call EXCEPT !.promise = "rejected"]

\* ---------------------------------------------------------------- initial state
\* The database outlives the page: a session starts on whatever earlier
\* sessions left in it.  Here: nothing, or the second of two records, the
\* first having been deleted.
Persisted ==
  { [store |-> << >>, keyGen |-> 0],
    [store |-> (2 :> [id |-> 2, name |-> "b.png", type |-> "image/png",
                      size |-> 0, uploadedAt |-> 0,
                      dataURL |-> "data:image/png;base64,"]),
     keyGen |-> 2] }

Init ==
  /\ db = 0
  /\ nconn = 0
  /\ openq = << >>
  /\ txq = << >>
  /\ \E p \in Persisted :
       /\ store = p.store
       /\ keyGen = p.keyGen
       /\ written = p.store
       /\ known = DOMAIN p.store
  /\ snap = NoSnap
  /\ clock = 0
  /\ ncalls = 0
  /\ settled = NoCall
  /\ gone = {}
  /\ returned = << >>
  /\ openFailed = FALSE
  /\ wired = FALSE
  /\ tasks = << >>
  /\ ntasks = 0
  /\ ended = NoTask
  /\ thrown = FALSE
  /\ gallery = << >>
  /\ table = << >>
  /\ origin = << >>
  /\ nevents = 0

\* ---------------------------------------------------------------- actions
\* The synchronous part of a call: openDB() either finds db set, and the
\* then-callback runs in the next microtask, or issues indexedDB.open.
Enter(call, t) ==
  /\ ncalls' = ncalls + 1
  /\ IF db # 0
     THEN /\ IF call.op = "open"
             THEN /\ settled' = ThenCallback(call, db, t)
                  /\ txq' = txq
             ELSE /\ txq' = Append(txq, ThenCallback(call, db, t))
                  /\ settled' = settled
          /\ openq' = openq
          /\ clock' = IF call.op = "add" THEN t ELSE clock
     ELSE /\ openq' = Append(openq, call)
          /\ UNCHANGED << txq, settled, clock >>
  /\ UNCHANGED << db, nconn, store, keyGen, snap, history, page >>

openDB ==
  /\ ncalls < MaxCalls
  /\ Enter(NewCall("open", NoFile, "", NoId), clock)

addFileRecord ==
  /\ ncalls < MaxCalls
  /\ \E u \in Uploads :
       \E t \in clock .. Min(clock + 1, MaxClock) :
         Enter(NewCall("add", u.file, u.dataURL, NoId), t)

getAllFiles ==
  /\ ncalls < MaxCalls
  /\ Enter(NewCall("getAll", NoFile, "", NoId), clock)

deleteFile ==
  /\ ncalls < MaxCalls
  /\ \E id \in IdArgs : Enter(NewCall("delete", NoFile, "", id), clock)

\* req.onsuccess of indexedDB.open: db = e.target.result; res(db); then the
\* then-callback of the call that issued the request.  more: the calls the
\* code awaiting the promise makes when it resumes.
OpenSucceeds(more) ==
  /\ openq # << >>
  /\ LET call == Head(openq) IN
     \E t \in clock .. Min(clock + 1, MaxClock) :
       /\ nconn' = nconn + 1
       /\ db' = nconn + 1
       /\ openq' = Tail(openq)
       /\ IF call.op = "open"
          THEN /\ settled' = ThenCallback(call, nconn + 1, t)
               /\ txq' = txq \o more
          ELSE /\ txq' = Append(txq, ThenCallback(call, nconn + 1, t)) \o more
               /\ settled' = settled
       /\ clock' = IF call.op = "add" THEN t ELSE clock
  /\ UNCHANGED << store, keyGen, snap, ncalls, history >>

OpenOnSuccess ==
  /\ OpenSucceeds(<< >>)
  /\ UNCHANGED page

\* req.onerror of indexedDB.open.
OpenFails ==
  /\ openq # << >>
  /\ openq' = Tail(openq)
  /\ settled' = FailOpen(Head(openq))
  /\ openFailed' = TRUE
  /\ UNCHANGED << db, nconn, txq, store, keyGen, snap, clock, ncalls,
                  written, known, gone, returned >>

OpenOnError ==
  /\ OpenFails
  /\ UNCHANGED page

\* The engine runs the request of the oldest transaction and fires success.
\* more: the calls the code awaiting the promise makes when it resumes.
RequestSucceeds(more) ==
  /\ txq # << >>
  /\ Head(txq).tx = "active"
  /\ LET call == Head(txq)
         done == SucceedRequest(call, store, keyGen)
         k    == ToNumber(call.id)
     IN
       /\ settled' = done
       /\ snap' = [store |-> store, keyGen |-> keyGen]
       /\ CASE call.op = "add" ->
                 /\ txq' = << done >> \o
                           [i \in 1 .. Len(txq) - 1 |->
                              [txq[i + 1] EXCEPT !.absent = @ \ {done.resId}]]
                           \o more
                 /\ store' = StoreAdd(store, keyGen, call).store
                 /\ keyGen' = StoreAdd(store, keyGen, call).keyGen
            [] call.op = "delete" ->
                 /\ txq' = << done >> \o
                           [i \in 1 .. Len(txq) - 1 |->
                              [txq[i + 1] EXCEPT !.expect = @ \ {k}]]
                           \o more
                 /\ store' = StoreDelete(store, call.id)
                 /\ keyGen' = keyGen
            [] OTHER ->
                 /\ txq' = << done >> \o Tail(txq) \o more
                 /\ UNCHANGED << store, keyGen >>
  /\ UNCHANGED << db, nconn, openq, clock, ncalls, openFailed >>

\* The history of what the callers have been told, at a request's success.
Told ==
  LET call == Head(txq)
      done == SucceedRequest(call, store, keyGen)
      k    == ToNumber(call.id)
  IN
    CASE call.op = "add" ->
           /\ written' =
                [j \in DOMAIN written \cup {done.resId} |->
                   IF j = done.resId
                   THEN [id |-> done.resId, name |-> call.file.name,
                         type |-> call.file.type,
                         size |-> call.file.size,
                         uploadedAt |-> call.at,
                         dataURL |-> call.dataURL]
                   ELSE written[j]]
           /\ known' = known \cup {done.resId}
           /\ returned' = Append(returned, done.resId)
           /\ gone' = gone \ {done.resId}
      [] call.op = "delete" ->
           /\ known' = known \ {k}
           /\ gone' = gone \cup {k}
           /\ UNCHANGED << written, returned >>
      [] OTHER ->
           UNCHANGED << written, known, gone, returned >>

RequestOnSuccess ==
  /\ RequestSucceeds(<< >>)
  /\ Told
  /\ UNCHANGED page

\* The engine fails the request of the oldest transaction and fires error.
RequestFails ==
  /\ txq # << >>
  /\ Head(txq).tx = "active"
  /\ LET failed == FailRequest(Head(txq)) IN
       /\ settled' = failed
       /\ txq' = IF failed.tx = "active"
                 THEN << failed >> \o Tail(txq)
                 ELSE Tail(txq)
  /\ UNCHANGED << db, nconn, openq, store, keyGen, snap, clock, ncalls,
                  history >>

RequestOnError ==
  /\ RequestFails
  /\ UNCHANGED page

\* The transaction commits: complete.
TxOnComplete ==
  /\ txq # << >>
  /\ Head(txq).tx = "finishing"
  /\ txq' = Tail(txq)
  /\ snap' = NoSnap
  /\ UNCHANGED << db, nconn, openq, store, keyGen, clock, ncalls, settled,
                  history, page >>

\* The commit of a readwrite transaction fails (quota, I/O): abort.  The
\* store and the key generator go back to what they were when it started.
TxOnAbort ==
  /\ txq # << >>
  /\ Head(txq).tx = "finishing"
  /\ Head(txq).op \in {"add", "delete"}
  /\ txq' = Tail(txq)
  /\ store' = snap.store
  /\ keyGen' = snap.keyGen
  /\ snap' = NoSnap
  /\ UNCHANGED << db, nconn, openq, clock, ncalls, settled, history, page >>

Next ==
  \/ openDB
  \/ addFileRecord
  \/ getAllFiles
  \/ deleteFile
  \/ OpenOnSuccess
  \/ OpenOnError
  \/ RequestOnSuccess
  \/ RequestOnError
  \/ TxOnComplete
  \/ TxOnAbort

Spec == Init /\ [][Next]_vars

\* ================================================================ the page
\* ---------------------------------------------------------------- helpers
Put(f, k, v) == [x \in DOMAIN f \cup {k} |-> IF x = k THEN v ELSE f[x]]

\* `${f.id}`: the decimal digits of a number.
RECURSIVE ToDigits(_)
ToDigits(n) ==
  IF n < 10 THEN << n >> ELSE ToDigits(n \div 10) \o << n % 10 >>

\* files.reverse()
Reverse(list) == [i \in DOMAIN list |-> list[Len(list) + 1 - i]]

\* files.sort((a,b) => new Date(b.uploadedAt) - new Date(a.uploadedAt)):
\* newest first, records of equal time in the order they had.
RECURSIVE SortNewestFirst(_)
SortNewestFirst(list) ==
  IF list = << >> THEN << >>
  ELSE LET m == CHOOSE i \in DOMAIN list :
                  /\ \A j \in DOMAIN list :
                       list[j].uploadedAt <= list[i].uploadedAt
                  /\ \A j \in 1 .. i - 1 :
                       list[j].uploadedAt < list[i].uploadedAt
       IN  << list[m] >> \o
           SortNewestFirst(SubSeq(list, 1, m - 1) \o
                           SubSeq(list, m + 1, Len(list)))

\* What a render leaves in its container: the placeholder alone when there
\* are no files (innerHTML = ...), else one child appended per file.
Rendered(view, list) ==
  IF list = << >> THEN << 0 >>
  ELSE view \o [i \in DOMAIN list |-> list[i].id]

\* files.find(x => x.id == id): loose equality of a number and a string.
Find(list, id) == \E i \in DOMAIN list : list[i].id = ToNumber(id)

\* The batches a drop or a change event can carry: no file, or the first
\* files of a.txt, b.png, a.txt, ...
Dropped(n) ==
  [i \in 1 .. n |->
     CHOOSE u \in Uploads :
       u.file.name = IF i % 2 = 1 THEN "a.txt" ELSE "b.png"]

Batches == { Dropped(n) : n \in 0 .. MaxFiles }

\* A call made by an invocation of the page while db is set.
PageCall(op, u, id, owner, database, t) ==
  ThenCallback([NoCall EXCEPT !.op = op, !.file = u.file,
                              !.dataURL = u.dataURL, !.id = id,
                              !.owner = owner],
               database, t)

NoUpload == [file |-> NoFile, dataURL |-> ""]

NewTask(id, kind, pc) == [NoTask EXCEPT !.id = id, !.kind = kind, !.pc = pc]

Over(tk) == tk.pc \in {"done", "failed"}

\* ---------------------------------------------------------------- the code
\* What an invocation does when the promise it awaits settles.  The result
\* gives the invocation afterwards, the store calls it makes, whether it
\* calls refreshGalleryAndData(), and what it leaves in the two containers.
Step(tk, calls, refresh, g, t, w) ==
  [ self |-> tk, calls |-> calls, refresh |-> refresh,
    gallery |-> g, table |-> t, wired |-> w ]

\* A handleFiles that catches the failure of one file and goes on with the
\* next one.
ThrowAndGoOn(tk) ==
  IF tk.kind = "batch" /\ tk.i < Len(tk.files)
  THEN [tk EXCEPT !.faults = @ + 1, !.i = @ + 1, !.pc = "reading"]
  ELSE [tk EXCEPT !.pc = "failed", !.faults = @ + 1]

\* An await that throws: the rest of the function is skipped.
Throw(tk) == [tk EXCEPT !.pc = "failed", !.faults = @ + 1]

\* DOMContentLoaded: await openDB(); setupUploadArea();
\* refreshGalleryAndData();
ResumeInit(tk, done) ==
  IF done.promise = "resolved"
  THEN Step([tk EXCEPT !.pc = "done", !.refreshed = TRUE],
            << >>, TRUE, gallery, table, TRUE)
  ELSE Step(Throw(tk), << >>, FALSE, gallery, table, wired)

\* handleFiles after await addFileRecord(f, dataURL): the next file, or
\* after the last one refreshGalleryAndData().
ResumeBatch(tk, done) ==
  IF done.promise = "resolved"
  THEN IF tk.i < Len(tk.files)
       THEN Step([tk EXCEPT !.resolved = @ + 1, !.i = @ + 1,
                            !.pc = "reading"],
                 << >>, FALSE, gallery, table, wired)
       ELSE Step([tk EXCEPT !.resolved = @ + 1, !.pc = "done",
                            !.refreshed = TRUE],
                 << >>, TRUE, gallery, table, wired)
  ELSE Step(Throw(tk), << >>, FALSE, gallery, table, wired)

\* refreshGalleryAndData after await getAllFiles() in renderGallery (then
\* renderDataTable clears the table and calls getAllFiles) and in
\* renderDataTable.
ResumeRefresh(tk, done, database) ==
  IF done.promise = "resolved"
  THEN IF tk.pc = "gallery"
       THEN Step([tk EXCEPT !.pc = "table"],
                 << PageCall("getAll", NoUpload, NoId, tk.id, database, 0) >>,
                 FALSE, Rendered(gallery, Reverse(done.resList)), << >>,
                 wired)
       ELSE Step([tk EXCEPT !.pc = "done"], << >>, FALSE, gallery,
                 Rendered(table, SortNewestFirst(done.resList)), wired)
  ELSE Step(Throw(tk), << >>, FALSE, gallery, table, wired)

\* A click handler whose delete branch does not ask for confirmation.
AfterLookupNoConfirm(tk, list, database) ==
  IF ~Find(list, tk.row)
  THEN Step([tk EXCEPT !.pc = "done"], << >>, FALSE, gallery, table, wired)
  ELSE IF tk.action = "download"
  THEN Step([tk EXCEPT !.pc = "done", !.found = TRUE],
            << >>, FALSE, gallery, table, wired)
  ELSE Step([tk EXCEPT !.pc = "deleting", !.found = TRUE,
                       !.attempted = @ + 1],
            << PageCall("delete", NoUpload, tk.row, tk.id, database, 0) >>,
            FALSE, gallery, table, wired)

\* A click handler after await getAllFiles(): not found, download, or
\* delete with confirm() and deleteFile(id).
AfterLookup(tk, list, database) ==
  IF ~Find(list, tk.row)
  THEN Step([tk EXCEPT !.pc = "done"], << >>, FALSE, gallery, table, wired)
  ELSE IF tk.action = "download"
  THEN Step([tk EXCEPT !.pc = "done", !.found = TRUE],
            << >>, FALSE, gallery, table, wired)
  ELSE IF ~tk.confirm
  THEN Step([tk EXCEPT !.pc = "done", !.found = TRUE, !.asked = TRUE],
            << >>, FALSE, gallery, table, wired)
  ELSE Step([tk EXCEPT !.pc = "deleting", !.found = TRUE, !.asked = TRUE,
                       !.attempted = @ + 1],
            << PageCall("delete", NoUpload, tk.row, tk.id, database, 0) >>,
            FALSE, gallery, table, wired)

\* A click handler after await deleteFile(id): refreshGalleryAndData().
ResumeClick(tk, done, database) ==
  IF done.promise = "resolved"
  THEN IF tk.pc = "lookup"
       THEN AfterLookup(tk, done.resList, database)
       ELSE Step([tk EXCEPT !.pc = "done", !.resolved = @ + 1,
                            !.refreshed = TRUE],
                 << >>, TRUE, gallery, table, wired)
  ELSE Step(Throw(tk), << >>, FALSE, gallery, table, wired)

Resume(tk, done, database) ==
  CASE tk.kind = "init" -> ResumeInit(tk, done)
    [] tk.kind = "batch" -> ResumeBatch(tk, done)
    [] tk.kind = "refresh" -> ResumeRefresh(tk, done, database)
    [] OTHER -> ResumeClick(tk, done, database)

\* refreshGalleryAndData() up to its first await: renderGallery clears the
\* grid and calls getAllFiles.
RefreshCalls(r, database) ==
  IF r.refresh
  THEN << PageCall("getAll", NoUpload, NoId, ntasks + 1, database, 0) >>
  ELSE << >>

\* The page after an invocation has run as far as its next await.
Resumed(r) ==
  /\ wired' = r.wired
  /\ ended' = IF Over(r.self) THEN r.self ELSE ended
  /\ thrown' = (thrown \/ r.self.pc = "failed")
  /\ ntasks' = IF r.refresh THEN ntasks + 1 ELSE ntasks
  /\ gallery' = IF r.refresh THEN << >> ELSE r.gallery
  /\ table' = r.table
  /\ tasks' =
       LET rest == IF Over(r.self)
                   THEN Restrict(tasks, DOMAIN tasks \ {r.self.id})
                   ELSE Put(tasks, r.self.id, r.self)
       IN  IF r.refresh
           THEN Put(rest, ntasks + 1,
                    NewTask(ntasks + 1, "refresh", "gallery"))
           ELSE rest

\* ---------------------------------------------------------------- actions
\* The DOMContentLoaded handler up to await openDB(): db is null, so
\* indexedDB.open is requested.
DOMContentLoaded ==
  /\ ntasks = 0
  /\ ntasks' = 1
  /\ tasks' = Put(tasks, 1, NewTask(1, "init", "opening"))
  /\ openq' = Append(openq, [NoCall EXCEPT !.op = "open", !.owner = 1])
  /\ UNCHANGED << db, nconn, txq, store, keyGen, snap, clock, ncalls,
                  settled, history, thrown, wired, ended, gallery, table,
                  origin, nevents >>

\* A drop or a change event: handleFiles(files, status) up to the first
\* await fileToDataURL(f); with no files it returns at once.
handleFiles ==
  /\ wired
  /\ nevents < MaxEvents
  /\ nevents' = nevents + 1
  /\ ntasks' = ntasks + 1
  /\ \E files \in Batches :
       LET tk == [NewTask(ntasks + 1, "batch", "reading")
                    EXCEPT !.files = files, !.i = 1]
       IN  IF files = << >>
           THEN /\ ended' = [tk EXCEPT !.pc = "done", !.i = 0]
                /\ tasks' = tasks
           ELSE /\ tasks' = Put(tasks, ntasks + 1, tk)
                /\ ended' = ended
  /\ UNCHANGED << db, nconn, openq, txq, store, keyGen, snap, clock, ncalls,
                  settled, history, thrown, wired, gallery, table, origin >>

\* reader.onload: fileToDataURL resolves and handleFiles calls
\* addFileRecord(f, dataURL).
ReaderOnLoad ==
  \E id \in DOMAIN tasks :
    /\ tasks[id].pc = "reading"
    /\ \E t \in clock .. Min(clock + 1, MaxClock) :
         /\ txq' = Append(txq, PageCall("add", tasks[id].files[tasks[id].i],
                                        NoId, id, db, t))
         /\ clock' = t
    /\ tasks' = [tasks EXCEPT ![id].pc = "adding", ![id].attempted = @ + 1]
    /\ UNCHANGED << db, nconn, openq, store, keyGen, snap, ncalls, settled,
                    history, thrown, wired, ntasks, ended, gallery, table,
                    origin, nevents >>

\* reader.onerror: fileToDataURL rejects and handleFiles throws.
ReaderOnError ==
  \E id \in DOMAIN tasks :
    /\ tasks[id].pc = "reading"
    /\ Resumed(Step(Throw(tasks[id]), << >>, FALSE, gallery, table, wired))
    /\ UNCHANGED << db, nconn, openq, txq, store, keyGen, snap, clock,
                    ncalls, settled, history, origin, nevents >>

\* A click on a button of a table row, up to await getAllFiles().
ClickButton ==
  /\ nevents < MaxEvents
  /\ nevents' = nevents + 1
  /\ ntasks' = ntasks + 1
  /\ \E i \in DOMAIN table :
       /\ table[i] # 0
       /\ \E action \in {"download", "delete"} :
          \E answer \in IF action = "delete" THEN BOOLEAN ELSE {FALSE} :
            tasks' = Put(tasks, ntasks + 1,
                         [NewTask(ntasks + 1, "click", "lookup")
                            EXCEPT !.row = StrId(ToDigits(table[i])),
                                   !.action = action, !.confirm = answer])
  /\ txq' = Append(txq, PageCall("getAll", NoUpload, NoId, ntasks + 1, db, 0))
  /\ UNCHANGED << db, nconn, openq, store, keyGen, snap, clock, ncalls,
                  settled, history, thrown, wired, ended, gallery, table,
                  origin >>

\* indexedDB.open succeeds and the handler awaiting openDB() resumes.
PageOpenOnSuccess ==
  /\ openq # << >>
  /\ Head(openq).owner \in DOMAIN tasks
  /\ LET call == Head(openq)
         r == Resume(tasks[call.owner], ThenCallback(call, nconn + 1, 0),
                     nconn + 1)
     IN  /\ OpenSucceeds(r.calls \o RefreshCalls(r, nconn + 1))
         /\ Resumed(r)
  /\ UNCHANGED << origin, nevents >>

\* indexedDB.open fails and the handler awaiting openDB() throws.
PageOpenOnError ==
  /\ openq # << >>
  /\ Head(openq).owner \in DOMAIN tasks
  /\ OpenFails
  /\ Resumed(Resume(tasks[Head(openq).owner], FailOpen(Head(openq)), db))
  /\ UNCHANGED << origin, nevents >>

\* A request succeeds and the invocation awaiting the call resumes.
PageRequestOnSuccess ==
  /\ txq # << >>
  /\ Head(txq).tx = "active"
  /\ Head(txq).owner \in DOMAIN tasks
  /\ LET call == Head(txq)
         done == SucceedRequest(call, store, keyGen)
         r == Resume(tasks[call.owner], done, db)
     IN  /\ RequestSucceeds(r.calls \o RefreshCalls(r, db))
         /\ Resumed(r)
         /\ origin' = IF call.op = "add"
                       THEN Put(origin, done.resId,
                                [task |-> call.owner,
                                 idx |-> tasks[call.owner].i])
                       ELSE origin
  /\ Told
  /\ UNCHANGED nevents

\* A request fails and the invocation awaiting the call throws.
PageRequestOnError ==
  /\ txq # << >>
  /\ Head(txq).tx = "active"
  /\ Head(txq).owner \in DOMAIN tasks
  /\ RequestFails
  /\ Resumed(Resume(tasks[Head(txq).owner], FailRequest(Head(txq)), db))
  /\ UNCHANGED << origin, nevents >>

NextApp ==
  \/ DOMContentLoaded
  \/ handleFiles
  \/ ReaderOnLoad
  \/ ReaderOnError
  \/ ClickButton
  \/ PageOpenOnSuccess
  \/ PageOpenOnError
  \/ PageRequestOnSuccess
  \/ PageRequestOnError
  \/ TxOnComplete
  \/ TxOnAbort

SpecApp == Init /\ [][NextApp]_vars

\* ---------------------------------------------------------------- claims
ResolvedList == settled.op = "getAll" /\ settled.promise = "resolved"

ListedIds == { settled.resList[i].id : i \in DOMAIN settled.resList }

Listed(k) ==
  \E i \in DOMAIN settled.resList :
    LET r == settled.resList[i] IN
      /\ r.id = k
      /\ r.name = written[k].name
      /\ r.type = written[k].type
      /\ r.size = written[k].size
      /\ r.dataURL = written[k].dataURL

\* C1: a getAllFiles() started after addFileRecord resolved with id k, with
\* no delete of k run in between, returns a record with id k and the name,
\* type, size and dataURL given to that insert.
C1_ListAfterInsertHasRecord ==
  ResolvedList =>
    \A k \in settled.expect \cap Range(returned) : Listed(k)

\* C2: a getAllFiles() started after deleteFile(id) resolved returns no
\* record whose id is Number(id) (an id given to a record inserted after
\* the delete ran is left out of the comparison).
C2_ListAfterDeleteLacksRecord ==
  ResolvedList => ListedIds \cap settled.absent = {}

\* C3: deleteFile(id) removes the record with that id and leaves the others:
\* a getAllFiles() started after a delete resolved, with other records
\* stored and no insert or delete pending, that returns those other records
\* with unchanged fields returns exactly them (after two inserts and the
\* delete of the first: exactly one record, the second).
C3_DeleteLeavesExactlyTheOthers ==
  (ResolvedList /\ settled.quiet /\ settled.absent # {}
     /\ settled.expect # {}
     /\ \A k \in settled.expect : Listed(k)) =>
    ListedIds = settled.expect

\* The step in which the engine answers the request of the oldest
\* transaction, a delete of a key that is not in the store.
DeleteAbsentAnswered ==
  /\ txq # << >>
  /\ Head(txq).op = "delete"
  /\ Head(txq).tx = "active"
  /\ ToNumber(Head(txq).id) \notin DOMAIN store
  /\ txq' # txq
  /\ Len(txq') <= Len(txq)

\* The step in which the transaction of such a delete commits or aborts.
DeleteAbsentFinished ==
  /\ txq # << >>
  /\ Head(txq).op = "delete"
  /\ Head(txq).tx = "finishing"
  /\ ToNumber(Head(txq).id) \notin DOMAIN snap.store
  /\ txq' # txq

\* C4: deleteFile(id) with an id that is the key of no stored record does
\* not fail for that reason (its promise resolves unless the engine itself
\* fires error) and leaves the store as it was, also when its transaction
\* then commits or aborts.
C4_DeleteAbsentIsNoOp ==
  [][ /\ DeleteAbsentAnswered =>
           /\ store' = store
           /\ keyGen' = keyGen
           /\ settled'.op = "delete"
           /\ ~settled'.fault => settled'.promise = "resolved"
      /\ DeleteAbsentFinished => store' = store
    ]_vars

C4_Witness ==
  /\ txq # << >>
  /\ Head(txq).op = "delete"
  /\ Head(txq).tx = "finishing"
  /\ Head(txq).promise = "resolved"
  /\ ToNumber(Head(txq).id) \notin DOMAIN snap.store
  /\ store # << >>
  /\ store = snap.store

\* C5: an addFileRecord started after earlier inserts resolved resolves
\* with an id that differs from every id those inserts resolved with and
\* from the id of every record present when it was called.
C5_SequentialIdsDistinct ==
  (settled.op = "add" /\ settled.promise = "resolved") =>
    settled.resId \notin settled.prior

\* C6: each id addFileRecord resolves with is strictly greater than every
\* id an earlier addFileRecord resolved with.
C6_IdsStrictlyIncreasing ==
  \A i, j \in DOMAIN returned : i < j => returned[i] < returned[j]

\* C7: all openDB() calls that resolve, resolve to the same handle, and at
\* most one connection is ever opened.
C7_OpenDBIdempotent ==
  /\ nconn <= 1
  /\ (settled.op = "open" /\ settled.promise = "resolved") =>
       settled.resDb = 1

\* C8: once an indexedDB.open has failed, every addFileRecord, getAllFiles
\* and deleteFile called afterwards rejects and opens no transaction.
C8_OpenFailureIsFatal ==
  /\ \A i \in DOMAIN txq : ~txq[i].afterFail
  /\ (settled.afterFail /\ settled.op \in {"add", "getAll", "delete"}) =>
       settled.promise = "rejected"

\* C9: every record present in the store has the id, name, type, size,
\* uploadedAt and dataURL of the add request that wrote it.
C9_RecordsImmutable ==
  \A k \in DOMAIN store : k \in DOMAIN written /\ store[k] = written[k]

C9_Witness ==
  /\ 2 \in DOMAIN store
  /\ 3 \in DOMAIN store
  /\ 1 \in gone
  /\ ResolvedList
  /\ txq = << >>

\* The step in which the request of the oldest transaction ends otherwise
\* than by firing success.
RequestFailed ==
  /\ txq # << >>
  /\ Head(txq).tx = "active"
  /\ txq' # txq
  /\ Len(txq') <= Len(txq)
  /\ \/ txq' = << >>
     \/ Head(txq').tx # "finishing"
     \/ Len(txq') < Len(txq)

\* C10: when the add, getAll or delete request of a call fires error, the
\* call's promise rejects, the call has placed one request and places no
\* other (it is over), and the store is what it was.
C10_FailureSurfacedOnce ==
  [][ RequestFailed =>
        /\ settled'.fault
        /\ settled'.promise = "rejected"
        /\ settled'.nreq = 1
        /\ settled'.op = Head(txq).op
        /\ txq' = Tail(txq)
        /\ store' = store
        /\ keyGen' = keyGen
    ]_vars

C10_Witness ==
  /\ settled.fault
  /\ settled.promise = "rejected"
  /\ settled.op = "add"
  /\ store # << >>
  /\ returned # << >>

\* C13: once the promise of addFileRecord has resolved with id k, record k
\* is in the store and no later step of its transaction takes it out; once
\* the promise of deleteFile(id) has resolved, no later step of its
\* transaction brings the record back.
C13_ResolvedMeansCommitted ==
  [][ (/\ txq # << >>
       /\ Head(txq).promise = "resolved"
       /\ Head(txq).tx = "finishing") =>
        /\ Head(txq).op = "add" => Head(txq).resId \in DOMAIN store'
        /\ Head(txq).op = "delete" =>
             ToNumber(Head(txq).id) \notin DOMAIN store'
    ]_vars

\* ---------------------------------------------------------------- page claims
\* The file indexes of handleFiles invocation b whose records are stored.
BatchStored(b) ==
  { origin[k].idx : k \in { x \in DOMAIN store \cap DOMAIN origin :
                                origin[x].task = b } }

\* C11: within one handleFiles call no addFileRecord is made before the
\* one for the file before it has resolved, and as long as no record has
\* been deleted the records of the batch that are in the store are those of
\* its first j files, for some j.
C11_BatchStoredIsPrefix ==
  /\ \A i, j \in DOMAIN txq :
       (i < j /\ txq[i].op = "add" /\ txq[j].op = "add"
          /\ txq[i].owner = txq[j].owner) => txq[i].promise = "resolved"
  /\ gone = {} =>
       \A b \in 1 .. ntasks : BatchStored(b) = 1 .. Cardinality(BatchStored(b))

\* The step in which fileToDataURL or addFileRecord rejects for handleFiles
\* invocation b.
BatchFaulted(b) ==
  /\ b \in DOMAIN tasks
  /\ tasks[b].kind = "batch"
  /\ \/ b \in DOMAIN tasks' /\ tasks'[b].faults > tasks[b].faults
     \/ /\ b \notin DOMAIN tasks'
        /\ ended'.id = b
        /\ ended'.faults > tasks[b].faults

Pending(op) ==
  { i \in DOMAIN openq : openq[i].op = op /\ openq[i].promise = "pending" }
    \cup
  { Len(openq) + i : i \in { j \in DOMAIN txq : txq[j].op = op
                                 /\ txq[j].promise = "pending" } }

\* C14: at no time are two addFileRecord calls, two getAllFiles calls or two
\* deleteFile calls waiting for their promise at once.
C14_NoCallConcurrentWithItself ==
  \A op \in {"add", "getAll", "delete"} : Cardinality(Pending(op)) <= 1

\* C15: a handleFiles invocation or a click handler that is over and has
\* had an addFileRecord or deleteFile call resolve has called
\* refreshGalleryAndData(), also when a later file of the batch failed.
C15_MutationIsFollowedByRefresh ==
  (ended.kind \in {"batch", "click"} /\ ended.resolved > 0) => ended.refreshed

\* The records a container shows: its children less the placeholder.
Shows(view) == [i \in { j \in DOMAIN view : view[j] # 0 } |-> view[i]]

ShowsStoreOnce(view) ==
  /\ Range(Shows(view)) = DOMAIN store
  /\ Cardinality(DOMAIN Shows(view)) = Cardinality(DOMAIN store)

\* C16: when no invocation is running, no call is waiting and no
\* invocation has thrown, the gallery grid and the data table each show
\* every record of the store exactly once and nothing else.
C16_ViewsShowStoreAtQuiescence ==
  (/\ wired
   /\ tasks = << >>
   /\ txq = << >>
   /\ ~thrown) =>
     /\ ShowsStoreOnce(gallery)
     /\ ShowsStoreOnce(table)

\* The click handler c is the one awaiting the request that runs in this
\* step.
ClickResumes(c) ==
  /\ c \in DOMAIN tasks
  /\ tasks[c].kind = "click"
  /\ txq # << >>
  /\ Head(txq).tx = "active"
  /\ Head(txq).owner = c
  /\ txq' = << >> \/ Head(txq') # Head(txq)

\* The click handler c is over after this step without a confirmed delete:
\* it was a download, the record was not found, confirm() was declined, or
\* the lookup failed.
ClickEndsWithoutDelete(c) ==
  /\ c \in DOMAIN tasks
  /\ tasks[c].kind = "click"
  /\ c \notin DOMAIN tasks'
  /\ \/ tasks[c].action = "download"
     \/ ~ended'.found
     \/ ~tasks[c].confirm

\* C17: the request of a click handler changes the store only if it is the
\* delete request of a handler whose action is 'delete', whose lookup found
\* the row's record in the store and whose confirm() was accepted; a
\* handler that ends as a download, with 'File not found' or with confirm()
\* declined has left the store as it is, has called neither deleteFile nor
\* refreshGalleryAndData, and leaves no call behind.
C17_ClickMutatesOnlyOnConfirmedDelete ==
  [][ \A c \in DOMAIN tasks :
        /\ (ClickResumes(c) /\ store' # store) =>
             /\ Head(txq).op = "delete"
             /\ tasks[c].pc = "deleting"
             /\ tasks[c].action = "delete"
             /\ tasks[c].found
             /\ tasks[c].asked
             /\ tasks[c].confirm
        /\ (ClickResumes(c) /\ tasks[c].pc = "lookup") =>
             LET after == IF c \in DOMAIN tasks' THEN tasks'[c] ELSE ended'
             IN  /\ after.pc # "failed" =>
                      after.found = (ToNumber(tasks[c].row) \in DOMAIN store)
                 /\ after.asked = (after.found /\ tasks[c].action = "delete")
                 /\ after.attempted > 0 => (after.asked /\ tasks[c].confirm)
        /\ ClickEndsWithoutDelete(c) =>
             /\ ended'.id = c
             /\ store' = store
             /\ ended'.attempted = 0
             /\ ~ended'.refreshed
             /\ ntasks' = ntasks
             /\ gallery' = gallery
             /\ table' = table
             /\ \A i \in DOMAIN txq' :
                  txq'[i].owner = c => txq'[i].promise # "pending"
    ]_vars

C17_Witness ==
  /\ ended.kind = "click"
  /\ ended.action = "delete"
  /\ ended.found
  /\ ended.confirm
  /\ ended.refreshed
  /\ ToNumber(ended.row) \notin DOMAIN store
  /\ store # << >>

====
